---- MODULE Spec2Model ----
(***************************************************************************)
(* Model of assault/stats.py: class Results.                               *)
(*                                                                         *)
(* A Results object is built from a wall-clock duration and a list of      *)
(* request dicts {status_code, request_time}; __init__ keeps the duration  *)
(* and a copy of the list sorted by request_time, and seven query methods  *)
(* derive statistics from the two fields.                                  *)
(*                                                                         *)
(* Python floats are modelled as a small binary floating-point format with *)
(* the IEEE-754 structure (PrecBits significant bits, round to nearest,    *)
(* ties to even, gradual underflow, overflow to infinity).  A float is     *)
(* represented by the integer number of units of 2^-FracBits it is worth;  *)
(* Inf stands for +infinity.  Python ints are exact.                       *)
(***************************************************************************)
EXTENDS Integers, Sequences, FiniteSets

VARIABLES
    pc,              \* "start": before Results(...) is called; "ready": after
    arg_total_time,  \* the total_time argument the caller passes
    arg_requests,    \* the caller's list passed as requests
    total_time,      \* self.total_time
    requests,        \* self.requests
    last,            \* the latest query call and its outcome
    observe,         \* whether the outcome of every call is recorded in hist
    hist             \* per query, the outcome of its latest recorded call

vars == <<pc, arg_total_time, arg_requests, total_time, requests, last, observe, hist>>

----------------------------------------------------------------------------
(* Bounds of the model *)

MaxLen == 3        \* longest caller list
MaxLenHist == 2    \* longest caller list when every call is recorded
PrecBits == 3      \* significant bits of the float format
FracBits == 2      \* the smallest positive float is 2^-FracBits
MaxExp == 7        \* the largest float is (2^PrecBits - 1) * 2^(MaxExp - FracBits)

ExampleCodes == {200, 500}                       \* the codes of the docstrings
BoundaryCodes == {-1, 199, 200, 298, 299, 500}   \* around range(200, 299)
Latencies == {1, 3, 6}                 \* 0.25 s, 0.75 s, 1.5 s
TotalTimes == {-4, 0, 1, 3, 8, 12}     \* -1.0, 0.0, 0.25, 0.75, 2.0, 3.0 s

----------------------------------------------------------------------------
(* Float arithmetic *)

RECURSIVE Pow2(_)
Pow2(k) == IF k <= 0 THEN 1 ELSE 2 * Pow2(k - 1)

One == Pow2(FracBits)                              \* the float 1.0
MaxFinite == (Pow2(PrecBits) - 1) * Pow2(MaxExp)   \* the largest finite float
Inf == Pow2(PrecBits + MaxExp)                     \* +infinity

Abs(x) == IF x < 0 THEN -x ELSE x
Sign(x) == IF x < 0 THEN -1 ELSE 1

\* The distance between neighbouring floats around num/den (num >= 0, den > 0):
\* the smallest power of two s with num/den < 2^PrecBits * s.
RECURSIVE Spacing(_, _, _)
Spacing(num, den, s) ==
    IF num < Pow2(PrecBits) * s * den THEN s ELSE Spacing(num, den, 2 * s)

\* The multiple of s nearest to num/den, a tie going to the even multiple.
RoundToMultiple(num, den, s) ==
    LET m == num \div (den * s)
        r == num - m * den * s
    IN  IF 2 * r > den * s \/ (2 * r = den * s /\ m % 2 = 1)
        THEN (m + 1) * s
        ELSE m * s

\* The float nearest to num/den (num >= 0, den > 0); Inf on overflow.
FRound(num, den) ==
    LET v == RoundToMultiple(num, den, Spacing(num, den, 1))
    IN  IF v > MaxFinite THEN Inf ELSE v

\* a + b for non-negative floats.
FAdd(a, b) == IF a = Inf \/ b = Inf THEN Inf ELSE FRound(a + b, 1)

\* n / t for an exact int n >= 0 and a float t # 0.
FDiv(n, t) == Sign(t) * FRound(n * One * One, Abs(t))

----------------------------------------------------------------------------
(* Outcomes of a call *)

Value(v) == [kind |-> "ok", val |-> v]
Raise(e) == [kind |-> e, val |-> 0]
NoResult == [kind |-> "none", val |-> 0]

\* A round that sends a tie away from zero.
PyRound_half_up(x) ==
    IF Abs(x) = Inf THEN Raise("OverflowError")
    ELSE Value(Sign(x) * ((2 * Abs(x) + One) \div (2 * One)))

\* round(x) of a float x: the nearest int, a tie going to the even one.
PyRound(x) ==
    IF Abs(x) = Inf THEN Raise("OverflowError")
    ELSE Value(Sign(x) * (RoundToMultiple(Abs(x), One, 1)))

----------------------------------------------------------------------------
(* The constructor's sort *)

\* A sort by another field of the request.
key_status_code(r) == r.status_code

\* key=lambda r: r["request_time"]
key(r) == r.request_time

\* An insertion that puts r before the elements of equal key.
RECURSIVE InsertSorted_before_equal(_, _)
InsertSorted_before_equal(s, r) ==
    IF s = <<>> THEN <<r>>
    ELSE IF key(Head(s)) < key(r)
         THEN <<Head(s)>> \o InsertSorted_before_equal(Tail(s), r)
         ELSE <<r>> \o s

\* Insert r into a sorted list after every element whose key is <= r's key.
RECURSIVE InsertSorted(_, _)
InsertSorted(s, r) ==
    IF s = <<>> THEN <<r>>
    ELSE IF key(Head(s)) <= key(r)
         THEN <<Head(s)>> \o InsertSorted(Tail(s), r)
         ELSE <<r>> \o s

\* The list kept in the caller's order.
sorted_not(s) == s

\* sorted(requests, key=lambda r: r["request_time"]): a new, stably sorted list.
RECURSIVE sorted(_)
sorted(s) ==
    IF s = <<>> THEN <<>>
    ELSE InsertSorted(sorted(SubSeq(s, 1, Len(s) - 1)), s[Len(s)])

----------------------------------------------------------------------------
(* The query methods, as functions of the two fields *)

\* self.requests[-1]["request_time"]
slowest(reqs) ==
    IF Len(reqs) = 0 THEN Raise("IndexError")
    ELSE Value(reqs[Len(reqs)].request_time)

\* A fastest that answers 0 when there is no request.
fastest_default(reqs) ==
    IF Len(reqs) = 0 THEN Value(0)
    ELSE Value(reqs[1].request_time)

\* self.requests[0]["request_time"]
fastest(reqs) ==
    IF Len(reqs) = 0 THEN Raise("IndexError")
    ELSE Value(reqs[1].request_time)

\* [r["request_time"] for r in self.requests]
request_times(reqs) == [i \in 1..Len(reqs) |-> reqs[i].request_time]

\* The exact (rational, here integer-valued in units) sum of a list of floats.
RECURSIVE ExactSum(_)
ExactSum(data) ==
    IF data = <<>> THEN 0 ELSE ExactSum(SubSeq(data, 1, Len(data) - 1)) + data[Len(data)]

\* The builtin sum: float additions from the left, starting from the int 0.
RECURSIVE sum(_)
sum(data) ==
    IF data = <<>> THEN 0
    ELSE FAdd(sum(SubSeq(data, 1, Len(data) - 1)), data[Len(data)])

\* A mean computed as sum(data) / len(data) in floats.
mean_naive(data) ==
    IF Len(data) = 0 THEN Raise("StatisticsError")
    ELSE Value(FRound(sum(data), Len(data)))

\* statistics.mean: the exact sum divided by the count, converted to a float
\* once; StatisticsError on no data.
mean(data) ==
    IF Len(data) = 0 THEN Raise("StatisticsError")
    ELSE Value(FRound(ExactSum(data), Len(data)))

average_time(reqs) == mean(request_times(reqs))

requests_total_time(reqs) == Value(sum(request_times(reqs)))

\* A range that includes its upper end.
range_closed(a, b) == a..b

\* range(a, b): the ints from a up to but not including b.
range(a, b) == a..(b - 1)

IsSuccess(r) == r.status_code \in range(200, 299)

successful_requests(reqs) == Value(Len(SelectSeq(reqs, IsSuccess)))

\* round(60 * len(self.requests) / self.total_time)
requests_per_minute(tt, reqs) ==
    IF tt = 0 THEN Raise("ZeroDivisionError")
    ELSE PyRound(FDiv(60 * Len(reqs), tt))

\* round(len(self.requests) / self.total_time)
requests_per_second(tt, reqs) ==
    IF tt = 0 THEN Raise("ZeroDivisionError")
    ELSE PyRound(FDiv(Len(reqs), tt))

Queries == {"slowest", "fastest", "average_time", "requests_total_time",
            "successful_requests", "requests_per_minute", "requests_per_second"}

\* The outcome of calling method q on an object with fields tt and reqs.
Outcome(q, tt, reqs) ==
    CASE q = "slowest" -> slowest(reqs)
      [] q = "fastest" -> fastest(reqs)
      [] q = "average_time" -> average_time(reqs)
      [] q = "requests_total_time" -> requests_total_time(reqs)
      [] q = "successful_requests" -> successful_requests(reqs)
      [] q = "requests_per_minute" -> requests_per_minute(tt, reqs)
      [] q = "requests_per_second" -> requests_per_second(tt, reqs)

\* A slowest written as self.requests.pop().
StoredAfter_pop(q, reqs) ==
    IF q = "slowest" /\ Len(reqs) > 0 THEN SubSeq(reqs, 1, Len(reqs) - 1) ELSE reqs

\* self.requests once method q has run: no method assigns or mutates it.
StoredAfter(q, reqs) == reqs

----------------------------------------------------------------------------
(* The state machine *)

\* The request dicts of the runs that exercise the timings, of the runs that
\* exercise the status codes, and of both.
TimedOutcomes == [status_code : ExampleCodes, request_time : Latencies]
CodedOutcomes == [status_code : BoundaryCodes, request_time : {1, 3}]
Outcomes == TimedOutcomes \cup CodedOutcomes

SeqsUpTo(S, n) == UNION {[1..k -> S] : k \in 0..n}

NoCall == [q |-> "none", res |-> NoResult]

InitCommon ==
    /\ pc = "start"
    /\ total_time = 0
    /\ requests = <<>>
    /\ last = NoCall
    /\ hist = [q \in Queries |-> NoResult]

\* Any duration, requests of the docstrings' status codes and any latency.
Init ==
    /\ InitCommon
    /\ observe = FALSE
    /\ arg_total_time \in TotalTimes
    /\ arg_requests \in SeqsUpTo(TimedOutcomes, MaxLen)

\* One duration, requests of any status code.
InitStatus ==
    /\ InitCommon
    /\ observe = FALSE
    /\ arg_total_time = 8
    /\ arg_requests \in SeqsUpTo(CodedOutcomes, MaxLen)

\* As Init, with every call recorded.
InitHist ==
    /\ InitCommon
    /\ observe = TRUE
    /\ arg_total_time \in TotalTimes
    /\ arg_requests \in SeqsUpTo(TimedOutcomes, MaxLenHist)

\* Results.__init__(total_time, requests)
Construct ==
    /\ pc = "start"
    /\ total_time' = arg_total_time
    /\ requests' = sorted(arg_requests)
    /\ pc' = "ready"
    /\ UNCHANGED <<arg_total_time, arg_requests, last, observe, hist>>

\* A call of method q on the constructed object.
Query(q) ==
    /\ pc = "ready"
    /\ LET res == Outcome(q, total_time, requests)
       IN  /\ last' = [q |-> q, res |-> res]
           /\ hist' = IF observe THEN [hist EXCEPT ![q] = res] ELSE hist
    /\ requests' = StoredAfter(q, requests)
    /\ UNCHANGED <<pc, arg_total_time, arg_requests, total_time, observe>>

Slowest == Query("slowest")
Fastest == Query("fastest")
AverageTime == Query("average_time")
RequestsTotalTime == Query("requests_total_time")
SuccessfulRequests == Query("successful_requests")
RequestsPerMinute == Query("requests_per_minute")
RequestsPerSecond == Query("requests_per_second")

Next ==
    \/ Construct
    \/ Slowest
    \/ Fastest
    \/ AverageTime
    \/ RequestsTotalTime
    \/ SuccessfulRequests
    \/ RequestsPerMinute
    \/ RequestsPerSecond

Spec == Init /\ [][Next]_vars

SpecStatus == InitStatus /\ [][Next]_vars

SpecHist == InitHist /\ [][Next]_vars

----------------------------------------------------------------------------
(* Vocabulary of the properties, stated on the caller's arguments *)

Idx == DOMAIN arg_requests
N == Len(arg_requests)
Times == {arg_requests[i].request_time : i \in Idx}
MaxTime == CHOOSE m \in Times : \A t \in Times : t <= m
MinTime == CHOOSE m \in Times : \A t \in Times : m <= t
TimeTotal == ExactSum([i \in 1..N |-> arg_requests[i].request_time])

\* r is the integer nearest to num/den (den > 0), a tie going to the even one.
IsNearestInt(r, num, den) ==
    /\ 2 * Abs(r * den - num) <= den
    /\ 2 * Abs(r * den - num) = den => r % 2 = 0

\* The finite non-negative floats of the format, and those with +infinity.
FiniteFloats == {m * Pow2(j) : m \in 0..(Pow2(PrecBits) - 1), j \in 0..MaxExp}
Floats == FiniteFloats \cup {Inf}

\* The reorderings of a list.
Perms(s) ==
    LET n == Len(s)
        bij == {f \in [1..n -> 1..n] : \A i, j \in 1..n : f[i] = f[j] => i = j}
    IN  {[i \in 1..n |-> s[f[i]]] : f \in bij}

Throughput == {"requests_per_minute", "requests_per_second"}
PerUnit(q) == IF q = "requests_per_minute" THEN 60 ELSE 1

----------------------------------------------------------------------------
(* C1: successful_requests() returns, without error, the number of outcomes *)
(* whose status_code is at least 200 and at most 298, for any list of       *)
(* outcomes (the empty one included); the count never exceeds the number of *)
(* outcomes.                                                                *)
C1_SuccessfulCount ==
    last.q = "successful_requests" =>
        /\ last.res.kind = "ok"
        /\ last.res.val = Cardinality({i \in Idx :
                              /\ arg_requests[i].status_code >= 200
                              /\ arg_requests[i].status_code <= 298})
        /\ last.res.val <= N

C1_Witness ==
    /\ last.q = "successful_requests"
    /\ \E i, j, k \in Idx :
          /\ arg_requests[i].status_code = 299
          /\ arg_requests[j].status_code = 298
          /\ arg_requests[k].status_code = 200
    /\ last.res.val = 2

(* C2: on a non-empty list given in any order, slowest() returns the        *)
(* largest request_time and fastest() the smallest.                         *)
C2_SlowestFastest ==
    (pc = "ready" /\ N > 0) =>
        /\ last.q = "slowest" => last.res = Value(MaxTime)
        /\ last.q = "fastest" => last.res = Value(MinTime)
        /\ MinTime <= MaxTime

C2_Witness ==
    /\ last.q = "slowest"
    /\ N = 3
    /\ arg_requests[1].request_time = last.res.val
    /\ arg_requests[2].request_time < arg_requests[3].request_time
    /\ arg_requests[3].request_time < last.res.val

(* C3 as stated: for total_time > 0, requests_per_minute() is the integer   *)
(* nearest to the exact quotient 60*n/total_time and requests_per_second()  *)
(* the integer nearest to n/total_time, ties going to the even integer.     *)
C3_NearestToExactQuotient ==
    (last.q \in Throughput /\ total_time > 0) =>
        /\ last.res.kind = "ok"
        /\ IsNearestInt(last.res.val, PerUnit(last.q) * N * One, total_time)

(* C3 amended: for total_time > 0 the result is the integer nearest (ties   *)
(* to even) to the float quotient, that is, to the float nearest to the     *)
(* exact quotient; when that float is infinite the call raises              *)
(* OverflowError.  The result is a function of n and total_time alone.      *)
C3_NearestToFloatQuotient ==
    (last.q \in Throughput /\ total_time > 0) =>
        \E fq \in Floats :
            /\ \A g \in Floats :
                  Abs(fq * arg_total_time - PerUnit(last.q) * N * One * One)
                    <= Abs(g * arg_total_time - PerUnit(last.q) * N * One * One)
            /\ IF fq = Inf
               THEN last.res = Raise("OverflowError")
               ELSE /\ last.res.kind = "ok"
                    /\ IsNearestInt(last.res.val, fq, One)

C3_Witness ==
    /\ last.q = "requests_per_second"
    /\ total_time > 0
    /\ last.res.kind = "ok"
    /\ FDiv(N, total_time) % One = One \div 2
    /\ ~ IsNearestInt(last.res.val, N * One, total_time)

(* C4: two objects built from reorderings of the same list and the same     *)
(* total_time give the same outcome for each of the seven queries.          *)
C4_OrderIndependent ==
    (pc = "ready" /\ last.q \in Queries) =>
        \A p \in Perms(arg_requests) :
            Outcome(last.q, arg_total_time, sorted(p)) = last.res

C4_Witness ==
    /\ last.q = "requests_total_time"
    /\ N = 3
    /\ sum(request_times(arg_requests)) # last.res.val

(* C5: on a non-empty list fastest() <= average_time() <= slowest(), and    *)
(* average_time() is the arithmetic mean: the float nearest to the sum of   *)
(* the latencies divided by their number.                                   *)
C5_AverageBetween ==
    (last.q = "average_time" /\ N > 0) =>
        /\ last.res.kind = "ok"
        /\ fastest(requests).val <= last.res.val
        /\ last.res.val <= slowest(requests).val
        /\ last.res.val \in FiniteFloats
        /\ \A f \in FiniteFloats :
              Abs(last.res.val * N - TimeTotal) <= Abs(f * N - TimeTotal)

C5_Witness ==
    /\ last.q = "average_time"
    /\ N = 3
    /\ last.res.val * N # TimeTotal
    /\ fastest(requests).val < last.res.val
    /\ last.res.val < slowest(requests).val

(* C6: constructing an object from an empty list succeeds; on that object   *)
(* slowest() and fastest() raise IndexError and average_time() raises       *)
(* StatisticsError, none returning a value.                                 *)
C6_EmptyRaises ==
    /\ pc = "start" => ENABLED Construct
    /\ (pc = "ready" /\ N = 0) =>
          /\ last.q \in {"slowest", "fastest"} => last.res = Raise("IndexError")
          /\ last.q = "average_time" => last.res = Raise("StatisticsError")

C6_Witness ==
    /\ pc = "ready"
    /\ N = 0
    /\ last.q = "average_time"
    /\ last.res.kind = "StatisticsError"

(* C7: on an object built from an empty list requests_total_time() ends in  *)
(* an error instead of returning a value.                                   *)
C7_TotalTimeEmptyRaises ==
    (last.q = "requests_total_time" /\ N = 0) => last.res.kind # "ok"

(* C8: when total_time <= 0, requests_per_minute() and                      *)
(* requests_per_second() end in an error and return no number.              *)
C8_NonPositiveDurationRaises ==
    (last.q \in Throughput /\ total_time <= 0) => last.res.kind # "ok"

(* C9: once the object is built, a query call changes neither total_time    *)
(* nor the stored list, and a query that was called before returns the same *)
(* outcome (value or error) again.                                          *)
C9_QueriesPure ==
    [][pc = "ready" =>
          /\ requests' = requests
          /\ total_time' = total_time
          /\ \A q \in Queries : hist[q] # NoResult => hist'[q] = hist[q]]_vars

C9_Witness ==
    /\ \A q \in Queries : hist[q] # NoResult
    /\ hist["fastest"].kind = "IndexError"
    /\ hist["requests_per_second"].kind = "ZeroDivisionError"
    /\ hist["requests_total_time"].kind = "ok"

(* C10: the constructor stores total_time as given and a list with the      *)
(* same outcomes as the caller's, in non-decreasing request_time order,     *)
(* outcomes of equal request_time keeping their order; the caller's list    *)
(* is not changed.                                                          *)
StoredAsGiven ==
    /\ total_time = arg_total_time
    /\ Len(requests) = N
    /\ \A o \in Outcomes :
          Len(SelectSeq(requests, LAMBDA r : r = o))
            = Len(SelectSeq(arg_requests, LAMBDA r : r = o))
    /\ \A i \in 1..(Len(requests) - 1) :
          requests[i].request_time <= requests[i + 1].request_time
    /\ \A t \in Latencies :
          SelectSeq(requests, LAMBDA r : r.request_time = t)
            = SelectSeq(arg_requests, LAMBDA r : r.request_time = t)

C10_ConstructorSorts ==
    [][pc' = "ready" => (StoredAsGiven' /\ arg_requests' = arg_requests)]_vars

C10_Witness ==
    /\ pc = "ready"
    /\ N = 3
    /\ requests # arg_requests
    /\ requests[1].request_time = requests[2].request_time
    /\ requests[1].status_code # requests[2].status_code
    /\ requests[2].request_time < requests[3].request_time

====
